---------------------------- MODULE Spec2Model ----------------------------
(***************************************************************************)
(* NDVI Explorer (hroblesdiez/ndvi-visor).                                 *)
(*                                                                         *)
(* The specifications, over one set of variables:                          *)
(*   SpecWindow  one call of readCOGWindow (ndvi.js): metadata, AOI        *)
(*               reprojection, pixel window, output size, windowed read.   *)
(*   SpecNDVI    one call of computeNDVIArray (ndvi.js) with band windows  *)
(*               as readCOGWindow returns them; SpecNDVIAnyWindow with     *)
(*               zero-size windows as well.                                *)
(*   SpecColor   one call of applyColormap (ndvi.js).                      *)
(*   SpecSign    one call of signUrl (ndvi.js, stac section) with the      *)
(*               responses it received and the waits it made recorded.     *)
(*   Spec        the page (app section of unnamed/part_001, scenes.js,     *)
(*               map section unnamed/part_000): user events interleaved    *)
(*               with the suspended async handlers.                        *)
(*   SpecRun     the page from the state in which an AOI is drawn and a    *)
(*               scene selected: NDVI generations, redraws and clears.     *)
(*                                                                         *)
(* Numbers.  Coordinates, resolutions and pixel counts are integers in a   *)
(* common unit, so every quotient the code floors or ceils is an exact     *)
(* rational; reflectances and index values are exact rationals num/den.    *)
(* IEEE rounding of the JavaScript doubles is not modelled.                *)
(***************************************************************************)
EXTENDS Integers, Sequences, FiniteSets, TLC

VARIABLES
    \* ---- readCOGWindow (SpecWindow) ----
    wImage,      \* the opened image: geotransform, size, GeoKey directory
    wBBox,       \* bboxWGS84 argument: <<west, south, east, north>>
    wPc,         \* "open" | "rasters" | "returned" | "thrown"
    wWin,        \* the clamped pixel window and output size, once computed
    wResult,     \* [kind: "none" | "null" | "data", width, height]
    wReadCalls,  \* number of image.readRasters invocations
    \* ---- computeNDVIArray (SpecNDVI) ----
    redData,     \* [data, width, height]
    nirData,     \* [data, width, height]
    nPc,         \* "call" | "returned"
    nResult,     \* [ndvi, width, height, stats], empty before the return
    \* ---- signUrl (SpecSign) ----
    sgCall,      \* the call's locals and position: [attempt, delay, phase, err]
    sgResponses, \* what each fetch of the call ended with, in order
    sgWaits,     \* the sleep(delay) made after each of them, 0 where none
    sgRequests,  \* number of fetch calls issued
    \* ---- applyColormap (SpecColor) ----
    cName,       \* the palette name argument
    cT,          \* the argument t, in units of 1 / TDen
    cPc,         \* "call" | "returned" | "thrown"
    cResult,     \* the RGB triple returned, <<>> before the return
    \* ---- resolveBandKeys (SpecKeys) ----
    kAssets,     \* Object.keys(assets) of the argument, in insertion order
    kPc,         \* "call" | "returned"
    kResult,     \* [redKey, nirKey], both NoKey before the return
    \* ---- the page (Spec) ----
    bbox,        \* app state: NoBBox (null) or <<west, south, east, north>>
    scenes,      \* app state and the cards rendered from it: set of features
    selected,    \* app state: NoScene (null) or the selected feature
    map,         \* map module: [drawnItems, previewLayer, ndviLayer, hitLayers]
    ui,          \* DOM: [status, toast, loaderOn, legendShown, stats,
                 \*       btnSearchDisabled, btnNdviDisabled]
    tasks,       \* the suspended async handlers, by slot
    events       \* number of user events so far

windowVars == <<wImage, wBBox, wPc, wWin, wResult, wReadCalls>>
ndviVars   == <<redData, nirData, nPc, nResult>>
signVars   == <<sgCall, sgResponses, sgWaits, sgRequests>>
colorVars  == <<cName, cT, cPc, cResult>>
keyVars    == <<kAssets, kPc, kResult>>
appVars    == <<bbox, scenes, selected, map, ui, tasks, events>>
vars       == <<windowVars, ndviVars, signVars, colorVars, keyVars, appVars>>

\* what an action of one specification leaves alone
notWindowVars == <<ndviVars, signVars, colorVars, keyVars, appVars>>
notNdviVars   == <<windowVars, signVars, colorVars, keyVars, appVars>>
notSignVars   == <<windowVars, ndviVars, colorVars, keyVars, appVars>>
notColorVars  == <<windowVars, ndviVars, signVars, keyVars, appVars>>
notKeyVars    == <<windowVars, ndviVars, signVars, colorVars, appVars>>
notAppVars    == <<windowVars, ndviVars, signVars, colorVars, keyVars>>

---------------------------------------------------------------------------
(* Arithmetic helpers: Math.floor, Math.ceil, Math.round, Math.min/max     *)
(* on the exact quotient a/b.                                              *)

Min(a, b) == IF a <= b THEN a ELSE b
Max(a, b) == IF a >= b THEN a ELSE b

\* Math.floor(a / b), b # 0
Floor(a, b) == IF b > 0 THEN a \div b ELSE (-a) \div (-b)

\* Math.ceil(a / b), b # 0
Ceil(a, b) == -Floor(-a, b)

\* Math.round(a / b), b # 0: floor(a/b + 0.5)
Round(a, b) == Floor(2 * a + b, 2 * b)

MinOf(S) == CHOOSE x \in S : \A y \in S : x <= y
MaxOf(S) == CHOOSE x \in S : \A y \in S : x >= y

---------------------------------------------------------------------------
(* readCOGWindow: ndvi.js lines 15-100                                     *)

\* the output-size cap in `1024 / Math.max(winW, winH)`
MaxDim == 1024

\* the fallback projected CRS returned by getEPSG
FallbackEPSG == 32601

\* image.fileDirectory is "undefined" (the property access throws inside the
\* try), "noGeoKeys" (GeoKeyDirectory undefined, replaced by []) or "ok":
\* then image.geoKeys is the array of shorts, a 4-entry header followed by
\* 4-entry keys <<keyId, location, count, value>>.
\* ScanGeoKeys without the `val > 0` tests
RECURSIVE ScanGeoKeys_NoPositiveTest(_, _)
ScanGeoKeys_NoPositiveTest(geoKeys, i) ==
    IF i >= Len(geoKeys) THEN FallbackEPSG
    ELSE LET keyId == geoKeys[i + 1]
             val   == IF i + 4 <= Len(geoKeys) THEN geoKeys[i + 4] ELSE 0
         IN  IF keyId = 3072 THEN val
             ELSE IF keyId = 2048 THEN val
             ELSE ScanGeoKeys_NoPositiveTest(geoKeys, i + 4)

RECURSIVE ScanGeoKeys(_, _)
ScanGeoKeys(geoKeys, i) ==
    \* i is the JavaScript (0-based) index of the loop
    IF i >= Len(geoKeys) THEN FallbackEPSG
    ELSE LET keyId == geoKeys[i + 1]
             \* geoKeys[i + 3] is undefined past the end: `undefined > 0` is false
             val   == IF i + 4 <= Len(geoKeys) THEN geoKeys[i + 4] ELSE 0
         IN  IF keyId = 3072 /\ val > 0 THEN val
             ELSE IF keyId = 2048 /\ val > 0 THEN val
             ELSE ScanGeoKeys(geoKeys, i + 4)

getEPSG(image) ==
    IF image.fileDirectory = "undefined" THEN FallbackEPSG
    ELSE IF image.fileDirectory = "noGeoKeys" THEN ScanGeoKeys(<<>>, 4)
    ELSE ScanGeoKeys(image.geoKeys, 4)

\* proj4('EPSG:4326', 'EPSG:<epsg>', [lon, lat]): the library is outside the
\* repository.  Stand-in: a sheared linear map, under which the image of a
\* geographic rectangle is not axis-aligned (the case the four-corner
\* projection exists for); one map for the fallback CRS and another for
\* every other code, so that the code handed to proj4 shows in the result.
proj4(epsg, p) ==
    IF epsg = FallbackEPSG
    THEN <<2 * p[1] + p[2], 2 * p[2] - p[1]>>
    ELSE <<2 * p[1] - p[2], 2 * p[2] + p[1]>>

\* Reproject without the geographic branch: proj4 applied whatever the CRS
Reproject_AlwaysProjects(epsg, bboxWGS84) ==
    LET west  == bboxWGS84[1]
        south == bboxWGS84[2]
        east  == bboxWGS84[3]
        north == bboxWGS84[4]
        pts   == { proj4(epsg, <<west, south>>), proj4(epsg, <<east, south>>),
                   proj4(epsg, <<east, north>>), proj4(epsg, <<west, north>>) }
    IN  [xmin |-> MinOf({p[1] : p \in pts}),
         ymin |-> MinOf({p[2] : p \in pts}),
         xmax |-> MaxOf({p[1] : p \in pts}),
         ymax |-> MaxOf({p[2] : p \in pts})]

\* lines 31-54: the AOI in the image CRS
Reproject(epsg, bboxWGS84) ==
    LET west  == bboxWGS84[1]
        south == bboxWGS84[2]
        east  == bboxWGS84[3]
        north == bboxWGS84[4]
    IN  IF epsg = 4326
        THEN [xmin |-> west, ymin |-> south, xmax |-> east, ymax |-> north]
        ELSE LET pts == { proj4(epsg, <<west, south>>), proj4(epsg, <<east, south>>),
                          proj4(epsg, <<east, north>>), proj4(epsg, <<west, north>>) }
             IN  [xmin |-> MinOf({p[1] : p \in pts}),
                  ymin |-> MinOf({p[2] : p \in pts}),
                  xmax |-> MaxOf({p[1] : p \in pts}),
                  ymax |-> MaxOf({p[2] : p \in pts})]

\* ClampedWindow with the east and south bounds floored instead of ceiled
ClampedWindow_FloorEverywhere(image, utmCoords) ==
    LET col0 == Floor(utmCoords.xmin - image.originX, image.xRes)
        row0 == Floor(utmCoords.ymax - image.originY, image.yRes)
        col1 == Floor(utmCoords.xmax - image.originX, image.xRes)
        row1 == Floor(utmCoords.ymin - image.originY, image.yRes)
    IN  [col0 |-> Max(0, col0), row0 |-> Max(0, row0),
         col1 |-> Min(image.fullW, col1), row1 |-> Min(image.fullH, row1)]

\* ClampedWindow without the clamp of col0 and row0 at 0
ClampedWindow_NoLowerClamp(image, utmCoords) ==
    LET col0 == Floor(utmCoords.xmin - image.originX, image.xRes)
        row0 == Floor(utmCoords.ymax - image.originY, image.yRes)
        col1 == Ceil(utmCoords.xmax - image.originX, image.xRes)
        row1 == Ceil(utmCoords.ymin - image.originY, image.yRes)
    IN  [col0 |-> col0, row0 |-> row0,
         col1 |-> Min(image.fullW, col1), row1 |-> Min(image.fullH, row1)]

\* ClampedWindow with Math.round for Math.floor and Math.ceil
ClampedWindow_RoundsToNearest(image, utmCoords) ==
    LET col0 == Round(utmCoords.xmin - image.originX, image.xRes)
        row0 == Round(utmCoords.ymax - image.originY, image.yRes)
        col1 == Round(utmCoords.xmax - image.originX, image.xRes)
        row1 == Round(utmCoords.ymin - image.originY, image.yRes)
    IN  [col0 |-> Max(0, col0), row0 |-> Max(0, row0),
         col1 |-> Min(image.fullW, col1), row1 |-> Min(image.fullH, row1)]

\* lines 58-72: native-CRS box -> pixel col/row, clamped to the image bounds
ClampedWindow(image, utmCoords) ==
    LET col0 == Floor(utmCoords.xmin - image.originX, image.xRes)
        row0 == Floor(utmCoords.ymax - image.originY, image.yRes)
        col1 == Ceil(utmCoords.xmax - image.originX, image.xRes)
        row1 == Ceil(utmCoords.ymin - image.originY, image.yRes)
    IN  [col0 |-> Max(0, col0), row0 |-> Max(0, row0),
         col1 |-> Min(image.fullW, col1), row1 |-> Min(image.fullH, row1)]

\* IsEmptyWindow with < for <=: a zero-width window counts as non-empty
IsEmptyWindow_Strict(w) == w.col1 < w.col0 \/ w.row1 < w.row0

\* line 74: the no-intersection test
IsEmptyWindow(w) == w.col1 <= w.col0 \/ w.row1 <= w.row0

\* OutDim without Math.max(1, ...)
OutDim_NoFloorAtOne(win, other) ==
    LET m == Max(win, other)
    IN  IF m <= MaxDim THEN win
        ELSE Round(win * MaxDim, m)

\* lines 82-86: scale = min(1, 1024 / max(winW, winH)); out = max(1, round(win * scale))
OutDim(win, other) ==
    LET m == Max(win, other)
    IN  IF m <= MaxDim THEN Max(1, win)
        ELSE Max(1, Round(win * MaxDim, m))

OutSize(w) ==
    LET winW == w.col1 - w.col0
        winH == w.row1 - w.row0
    IN  [outW |-> OutDim(winW, winH), outH |-> OutDim(winH, winW)]

NoWin == [col0 |-> 0, row0 |-> 0, col1 |-> 0, row1 |-> 0, outW |-> 0, outH |-> 0]

\* lines 23-86: everything between `await tiff.getImage()` and the windowed read
WindowOf(image, bboxWGS84) ==
    LET w == ClampedWindow(image, Reproject(getEPSG(image), bboxWGS84))
    IN  IF IsEmptyWindow(w)
        THEN [col0 |-> w.col0, row0 |-> w.row0, col1 |-> w.col1, row1 |-> w.row1,
              outW |-> 0, outH |-> 0]
        ELSE [col0 |-> w.col0, row0 |-> w.row0, col1 |-> w.col1, row1 |-> w.row1,
              outW |-> OutSize(w).outW, outH |-> OutSize(w).outH]

\* ---- inputs of SpecWindow ----

\* AOI coordinates are drawn from -2..MaxCoord and from BigCoords
MaxCoord == 8

SmallCoords == (-2)..MaxCoord
BigCoords   == {1024, 1025, 2500, 3000, 3001}
Coords      == SmallCoords \cup BigCoords

\* GeoKey directories: header, then GTModelType (1024) and the CRS key
GeographicKeys == <<1, 1, 0, 2,  1024, 0, 1, 2,  2048, 0, 1, 4326>>

\* a 3 x 2 image of 2 x 3 unit pixels over [0,6] x [0,6], geographic CRS
ImgSmall == [originX |-> 0, originY |-> 6, xRes |-> 2, yRes |-> -3,
             fullW |-> 3, fullH |-> 2,
             fileDirectory |-> "ok", geoKeys |-> GeographicKeys]

\* a 5 x 4 image of 3 x 2 unit pixels over [-3,12] x [0,8]; no GeoKey
\* directory, so getEPSG falls back and the AOI goes through proj4
ImgProjected == [originX |-> -3, originY |-> 8, xRes |-> 3, yRes |-> -2,
                 fullW |-> 5, fullH |-> 4,
                 fileDirectory |-> "noGeoKeys", geoKeys |-> <<>>]

\* a 3000 x 3000 image of unit pixels over [0,3000] x [0,3000]: windows
\* larger than MaxDim
ImgBig == [originX |-> 0, originY |-> 3000, xRes |-> 1, yRes |-> -1,
           fullW |-> 3000, fullH |-> 3000,
           fileDirectory |-> "ok", geoKeys |-> GeographicKeys]

Images == {ImgSmall, ImgProjected, ImgBig}

\* the raster of ImgProjected with other GeoKey directories
WithGeoKeys(fileDirectory, geoKeys) ==
    [ImgProjected EXCEPT !.fileDirectory = fileDirectory, !.geoKeys = geoKeys]

\* image.fileDirectory undefined: the property access of line 105 throws
ImgNoDirectory == WithGeoKeys("undefined", <<>>)

\* a directory without a CRS key
ImgNoCRSKey == WithGeoKeys("ok", <<1, 1, 0, 1,  1024, 0, 1, 1>>)

\* CRS keys present with value 0 (undefined CRS)
ImgZeroCRS == WithGeoKeys("ok", <<1, 1, 0, 2,  2048, 0, 1, 0,  3072, 0, 1, 0>>)

\* a directory cut short inside the CRS key: geoKeys[i + 3] is undefined
ImgTruncated == WithGeoKeys("ok", <<1, 1, 0, 1,  3072, 0, 1>>)

\* a projected raster declaring UTM zone 10N
ImgUTM == WithGeoKeys("ok", <<1, 1, 0, 2,  1024, 0, 1, 1,  3072, 0, 1, 32610>>)

GeoKeyImages == {ImgNoDirectory, ImgNoCRSKey, ImgZeroCRS, ImgTruncated, ImgUTM}

\* [west, south, east, north] as the draw control reports them
BBoxes == { <<w, s, e, n>> : w \in Coords, s \in Coords, e \in Coords, n \in Coords }

NoResult   == [kind |-> "none", width |-> 0, height |-> 0]
NullResult == [kind |-> "null", width |-> 0, height |-> 0]

\* AOIs with small coordinates only, for the rasters of GeoKeyImages
SmallBBoxes ==
    { <<w, s, e, n>> : w \in SmallCoords, s \in SmallCoords,
                       e \in SmallCoords, n \in SmallCoords }

WindowInit ==
    /\ \/ /\ wImage \in Images
          /\ wBBox \in { b \in BBoxes : b[1] <= b[3] /\ b[2] <= b[4] }
       \/ /\ wImage \in GeoKeyImages
          /\ wBBox \in { b \in SmallBBoxes : b[1] <= b[3] /\ b[2] <= b[4] }
    /\ wPc = "open"
    /\ wWin = NoWin
    /\ wResult = NoResult
    /\ wReadCalls = 0

WindowIdle ==
    /\ wImage = ImgSmall
    /\ wBBox = <<0, 0, 0, 0>>
    /\ wPc = "returned"
    /\ wWin = NoWin
    /\ wResult = NoResult
    /\ wReadCalls = 0

\* lines 16-17: GeoTIFF.fromUrl or tiff.getImage rejects
CogOpenFails ==
    /\ wPc = "open"
    /\ wPc' = "thrown"
    /\ UNCHANGED <<wImage, wBBox, wWin, wResult, wReadCalls, notWindowVars>>

\* lines 16-97: the image is opened, the window computed; either the
\* function returns null (line 76) or it calls image.readRasters (line 92)
CogOpened ==
    /\ wPc = "open"
    /\ LET w == WindowOf(wImage, wBBox)
       IN  /\ wWin' = w
           /\ IF IsEmptyWindow(w)
              THEN /\ wResult' = NullResult
                   /\ wPc' = "returned"
                   /\ UNCHANGED wReadCalls
              ELSE /\ wPc' = "rasters"
                   /\ wReadCalls' = wReadCalls + 1
                   /\ UNCHANGED wResult
    /\ UNCHANGED <<wImage, wBBox, notWindowVars>>

\* lines 92-99: readRasters resolves
CogRastersRead ==
    /\ wPc = "rasters"
    /\ wPc' = "returned"
    /\ wResult' = [kind |-> "data", width |-> wWin.outW, height |-> wWin.outH]
    /\ UNCHANGED <<wImage, wBBox, wWin, wReadCalls, notWindowVars>>

\* line 92: readRasters rejects
CogRastersFail ==
    /\ wPc = "rasters"
    /\ wPc' = "thrown"
    /\ UNCHANGED <<wImage, wBBox, wWin, wResult, wReadCalls, notWindowVars>>

WindowNext == CogOpenFails \/ CogOpened \/ CogRastersRead \/ CogRastersFail

---------------------------------------------------------------------------
(* computeNDVIArray: ndvi.js lines 119-156                                 *)

\* Numbers of the index computation: num/den with den >= 0.  den = 0 encodes
\* the doubles that are no rationals: NaN (0/0), Infinity (1/0), -Infinity.
RECURSIVE GCD(_, _)
GCD(a, b) == IF b = 0 THEN a ELSE GCD(b, a % b)

Abs(a) == IF a < 0 THEN -a ELSE a

Rat(n, d) ==
    LET g == GCD(Abs(n), d)
    IN  [num |-> n \div g, den |-> d \div g]

Zero   == [num |-> 0, den |-> 1]
NaN    == [num |-> 0, den |-> 0]
PosInf == [num |-> 1, den |-> 0]
NegInf == [num |-> -1, den |-> 0]

isNaN(v)     == v.num = 0 /\ v.den = 0
RatLt(a, b)  == a.num * b.den < b.num * a.den
RatLe(a, b)  == a.num * b.den <= b.num * a.den
RatAdd(a, b) == Rat(a.num * b.den + b.num * a.den, a.den * b.den)

\* SCALE = 0.0000275 = ScaleNum / ReflUnit, OFFSET = -0.2 = -OffsetNum / ReflUnit:
\* reflectances are integers in units of 1 / ReflUnit
ReflUnit  == 10000000
ScaleNum  == 275
OffsetNum == 2000000

\* Calibrate without the clamp to [0, 1]
Calibrate_NoClamp(raw) == raw * ScaleNum - OffsetNum

\* lines 135-136: Math.max(0, Math.min(1, raw * SCALE + OFFSET))
Calibrate(raw) == Max(0, Min(ReflUnit, raw * ScaleNum - OffsetNum))

\* NDVIValue testing the numerator instead of the denominator
NDVIValue_TestsNumerator(n, r) ==
    LET denom == n + r
    IN  IF n - r > 0 THEN Rat(n - r, denom) ELSE NaN

\* lines 137-138
NDVIValue(n, r) ==
    LET denom == n + r
    IN  IF denom > 0 THEN Rat(n - r, denom) ELSE NaN

\* the vegetation threshold of line 145
VegThreshold == [num |-> 3, den |-> 10]

\* lines 134-147: the loop over i < width * height, samples taken at the
\* flat index i of each band's array
RECURSIVE NDVILoop(_, _, _, _)
NDVILoop(red, nir, n, i) ==
    \* the state after iterations 0 .. i-1 (JavaScript indices)
    IF i = 0
    THEN [ndvi |-> <<>>, sum |-> Zero, cnt |-> 0, veg |-> 0,
          minV |-> PosInf, maxV |-> NegInf]
    ELSE LET a == NDVILoop(red, nir, n, i - 1)
             v == NDVIValue(Calibrate(nir[i]), Calibrate(red[i]))
         IN  IF isNaN(v)
             THEN [a EXCEPT !.ndvi = Append(@, v)]
             ELSE [ndvi |-> Append(a.ndvi, v),
                   sum  |-> RatAdd(a.sum, v),
                   cnt  |-> a.cnt + 1,
                   veg  |-> IF RatLt(VegThreshold, v) THEN a.veg + 1 ELSE a.veg,
                   minV |-> IF RatLt(v, a.minV) THEN v ELSE a.minV,
                   maxV |-> IF RatLt(a.maxV, v) THEN v ELSE a.maxV]

computeNDVIArray(red, nir) ==
    LET width  == Min(red.width, nir.width)
        height == Min(red.height, nir.height)
        a      == NDVILoop(red.data, nir.data, width * height, width * height)
        mean   == IF a.cnt > 0 THEN Rat(a.sum.num, a.sum.den * a.cnt) ELSE Zero
        vegPct == IF a.cnt > 0 THEN Rat(a.veg * 100, a.cnt) ELSE Zero
    IN  [ndvi |-> a.ndvi, width |-> width, height |-> height,
         stats |-> [min |-> a.minV, mean |-> mean, max |-> a.maxV, vegPct |-> vegPct]]

\* ---- inputs of SpecNDVI ----

\* band windows are at most MaxSide wide and high and hold at most MaxCells samples
MaxSide  == 2
MaxCells == 4

\* raw uint16 samples: calibrated to -0.2 (clamped to 0), 0.075, 0.35 and
\* 1.6 (clamped to 1)
RawValues == {0, 10000, 20000, 65535}

BandDims == { d \in (1..MaxSide) \X (1..MaxSide) : d[1] * d[2] <= MaxCells }

\* what readCOGWindow returns: data of length width * height
BandWindows ==
    UNION { { [data |-> s, width |-> d[1], height |-> d[2]] :
              s \in [1..(d[1] * d[2]) -> RawValues] } : d \in BandDims }

EmptyNDVI == [ndvi |-> <<>>, width |-> 0, height |-> 0,
              stats |-> [min |-> Zero, mean |-> Zero, max |-> Zero, vegPct |-> Zero]]

NDVIInit ==
    /\ redData \in BandWindows
    /\ nirData \in BandWindows
    /\ nPc = "call"
    /\ nResult = EmptyNDVI

\* Zero-size windows.  readCOGWindow returns at least 1 x 1 (lines 85-86), so
\* the page never passes one; computeNDVIArray is exported and accepts them.
DegenerateDims == { d \in (0..MaxSide) \X (0..MaxSide) : d[1] * d[2] = 0 }

DegenerateWindows ==
    { [data |-> <<>>, width |-> d[1], height |-> d[2]] : d \in DegenerateDims }

\* a call of the exported function with any pair of windows
NDVIInitAnyWindow ==
    /\ redData \in BandWindows \cup DegenerateWindows
    /\ nirData \in BandWindows \cup DegenerateWindows
    /\ nPc = "call"
    /\ nResult = EmptyNDVI

NDVIIdle ==
    /\ redData = [data |-> <<0>>, width |-> 1, height |-> 1]
    /\ nirData = [data |-> <<0>>, width |-> 1, height |-> 1]
    /\ nPc = "returned"
    /\ nResult = EmptyNDVI

ComputeNDVI ==
    /\ nPc = "call"
    /\ nResult' = computeNDVIArray(redData, nirData)
    /\ nPc' = "returned"
    /\ UNCHANGED <<redData, nirData, notNdviVars>>

NDVINext == ComputeNDVI

---------------------------------------------------------------------------
(* applyColormap, interp: ndvi.js lines 186-214                            *)

\* t is a multiple of 1 / TDen, from -TOut / TDen to 1 + TOut / TDen
TDen == 8
TOut == 4

\* lines 188-198: the color stops of each palette
Greens   == << <<247, 252, 245>>, <<0, 109, 44>> >>
Viridis  == << <<68, 1, 84>>, <<59, 82, 139>>, <<33, 145, 140>>, <<94, 201, 98>>,
               <<253, 231, 37>> >>
Spectral == << <<158, 1, 66>>, <<213, 62, 79>>, <<253, 174, 97>>, <<255, 255, 191>>,
               <<171, 221, 164>>, <<43, 131, 186>>, <<94, 79, 162>> >>
YlGn     == << <<255, 255, 229>>, <<120, 198, 121>>, <<0, 104, 55>> >>
RdYlGn   == << <<165, 0, 38>>, <<215, 48, 39>>, <<244, 109, 67>>, <<253, 174, 97>>,
               <<254, 224, 139>>, <<255, 255, 191>>, <<217, 239, 139>>,
               <<166, 217, 106>>, <<102, 189, 99>>, <<26, 152, 80>>, <<0, 104, 55>> >>

\* the switch of lines 187-199; any other name takes the default branch
PaletteNames == {"greens", "viridis", "spectral", "ylgn", "rdylgn", "other"}

StopsOf(name) ==
    CASE name = "greens"   -> Greens
      [] name = "viridis"  -> Viridis
      [] name = "spectral" -> Spectral
      [] name = "ylgn"     -> YlGn
      [] OTHER             -> RdYlGn

\* what interp ends with: an RGB triple, or the TypeError of `a[0]` with
\* a undefined
Thrown == <<>>

\* lines 202-214, t = tNum / TDen.  stops[i] with i < 0 is undefined;
\* i + 1 <= n always, so `|| stops[n]` is never taken for a defined a
interp(tNum, stops) ==
    LET n    == Len(stops) - 1
        \* pos = t * n = posNum / TDen
        posNum == tNum * n
        i    == Min(Floor(posNum, TDen), n - 1)
        \* f = pos - i = fNum / TDen
        fNum == posNum - i * TDen
    IN  IF i < 0 THEN Thrown
        ELSE LET a == stops[i + 1]
                 b == stops[i + 2]
             IN  << Round(a[1] * TDen + (b[1] - a[1]) * fNum, TDen),
                    Round(a[2] * TDen + (b[2] - a[2]) * fNum, TDen),
                    Round(a[3] * TDen + (b[3] - a[3]) * fNum, TDen) >>

applyColormap(tNum, name) == interp(tNum, StopsOf(name))

ColorInit ==
    /\ cName \in PaletteNames
    /\ cT \in (-TOut)..(TDen + TOut)
    /\ cPc = "call"
    /\ cResult = <<>>

ColorIdle ==
    /\ cName = "rdylgn"
    /\ cT = 0
    /\ cPc = "returned"
    /\ cResult = <<>>

ApplyColormap ==
    /\ cPc = "call"
    /\ cResult' = applyColormap(cT, cName)
    /\ cPc' = IF cResult' = Thrown THEN "thrown" ELSE "returned"
    /\ UNCHANGED <<cName, cT, notColorVars>>

ColorNext == ApplyColormap

---------------------------------------------------------------------------
(* signUrl: ndvi.js lines 250-285                                          *)

MAX_RETRIES  == 4
InitialDelay == 800

\* A call is at one of its suspension points or has settled:
\*   "fetch"       awaiting fetch (line 256), request `attempt` in flight
\*   "sleepRetry"  awaiting sleep(delay) of the 429 branch (line 268)
\*   "sleepCatch"  awaiting sleep(delay) of the catch block (line 279)
\*   "returned"    returned data.href (line 262)
\*   "thrown"      rejected with err
\*   "idle"        no call
\* err: "http" (line 274), "network" (fetch or res.json() rejected),
\*      "rateLimited" (line 284)
SignIdle == [attempt |-> 0, delay |-> 0, phase |-> "idle", err |-> "none"]

\* lines 251-256: the call runs to its first fetch
SignStart == [attempt |-> 1, delay |-> InitialDelay, phase |-> "fetch", err |-> "none"]

\* what a fetch ends with: a 2xx response whose body parses, HTTP 429, another
\* non-ok status, or a rejection (network error, or res.json() rejecting)
Responses == {"ok", "rateLimited", "httpError", "networkError"}

\* SignCatch giving up silently on the last attempt: the call returns (the
\* unsigned href) instead of rethrowing
SignCatch_ReturnsUnsigned(s, e) ==
    IF s.attempt = MAX_RETRIES
    THEN [s EXCEPT !.phase = "returned"]
    ELSE [s EXCEPT !.phase = "sleepCatch"]

\* lines 276-281: the catch block, entered with error e
SignCatch(s, e) ==
    IF s.attempt = MAX_RETRIES
    THEN [s EXCEPT !.phase = "thrown", !.err = e]
    ELSE [s EXCEPT !.phase = "sleepCatch"]

\* lines 256-281: the awaited fetch settles with resp
SignOnResponse(s, resp) ==
    CASE resp = "ok"           -> [s EXCEPT !.phase = "returned"]
      [] resp = "rateLimited"  -> [s EXCEPT !.phase = "sleepRetry"]
      [] resp = "httpError"    -> SignCatch(s, "http")
      [] resp = "networkError" -> SignCatch(s, "network")

\* SignOnWake without `delay *= 2`
SignOnWake_NoDoubling(s) ==
    IF s.attempt + 1 <= MAX_RETRIES
    THEN [s EXCEPT !.attempt = @ + 1, !.phase = "fetch"]
    ELSE [s EXCEPT !.attempt = @ + 1, !.phase = "thrown", !.err = "rateLimited"]

\* lines 268-270, 279-281, 254, 284: the timer fires, delay doubles, the loop
\* goes to the next attempt or falls through to the final throw
SignOnWake(s) ==
    IF s.attempt + 1 <= MAX_RETRIES
    THEN [s EXCEPT !.attempt = @ + 1, !.delay = 2 * @, !.phase = "fetch"]
    ELSE [s EXCEPT !.attempt = @ + 1, !.delay = 2 * @,
                   !.phase = "thrown", !.err = "rateLimited"]

SignSleeping(s) == s.phase \in {"sleepRetry", "sleepCatch"}

\* the wait a response is followed by: sleep(delay) when the call sleeps
WaitAfter(s) == IF SignSleeping(s) THEN s.delay ELSE 0

SignInit ==
    /\ sgCall = SignStart
    /\ sgResponses = <<>>
    /\ sgWaits = <<>>
    /\ sgRequests = 1

SignIdleInit ==
    /\ sgCall = SignIdle
    /\ sgResponses = <<>>
    /\ sgWaits = <<>>
    /\ sgRequests = 0

SignSettle(resp) ==
    /\ sgCall.phase = "fetch"
    /\ sgCall' = SignOnResponse(sgCall, resp)
    /\ sgResponses' = Append(sgResponses, resp)
    /\ sgWaits' = Append(sgWaits, WaitAfter(sgCall'))
    /\ UNCHANGED <<sgRequests, notSignVars>>

\* fetch rejects
SignNetworkError == SignSettle("networkError")

\* fetch resolves with status 429
SignRateLimited == SignSettle("rateLimited")

\* fetch resolves with a non-ok status other than 429
SignHttpError == SignSettle("httpError")

\* fetch resolves with an ok response
SignOk == SignSettle("ok")

\* the setTimeout of sleep fires
SignWake ==
    /\ SignSleeping(sgCall)
    /\ sgCall' = SignOnWake(sgCall)
    /\ sgRequests' = IF sgCall'.phase = "fetch" THEN sgRequests + 1 ELSE sgRequests
    /\ UNCHANGED <<sgResponses, sgWaits, notSignVars>>

SignNext == SignNetworkError \/ SignRateLimited \/ SignHttpError \/ SignOk \/ SignWake

---------------------------------------------------------------------------
(* resolveBandKeys: ndvi.js lines 294-321                                  *)

\* null
NoKey == ""

RedCandidates == <<"red", "SR_B4", "sr_b4", "SR_B3", "sr_b3", "B4", "B3">>
NirCandidates == <<"nir08", "nir", "SR_B5", "sr_b5", "SR_B4", "sr_b4", "B5", "B4">>

\* the keys k with k.toLowerCase() containing 'nir', 'b5' or 'b4', among the
\* asset keys of the model
NirLikeKeys == {"nir08", "nir", "SR_B5", "sr_b5", "SR_B4", "sr_b4", "B5", "B4",
                "nir09", "ST_B4"}

SeqRange(q) == { q[i] : i \in 1..Len(q) }

\* lines 294-299; assets is Object.keys(assets), in order
RECURSIVE findKey(_, _)
findKey(assets, candidates) ==
    IF candidates = <<>> THEN NoKey
    ELSE IF Head(candidates) \in SeqRange(assets) THEN Head(candidates)
    ELSE findKey(assets, Tail(candidates))

\* Array.prototype.filter
RECURSIVE Filter(_, _, _)
Filter(q, keep, drop) ==
    IF q = <<>> THEN <<>>
    ELSE IF Head(q) \in keep /\ Head(q) # drop
         THEN <<Head(q)>> \o Filter(Tail(q), keep, drop)
         ELSE Filter(Tail(q), keep, drop)

\* lines 301-321 without the guard of lines 309-317
resolveBandKeys_NoGuard(assets) ==
    [redKey |-> findKey(assets, RedCandidates),
     nirKey |-> findKey(assets, NirCandidates)]

\* lines 301-321
resolveBandKeys(assets) ==
    LET redKey == findKey(assets, RedCandidates)
        nirKey == findKey(assets, NirCandidates)
    IN  IF nirKey # NoKey /\ nirKey = redKey
        THEN [redKey |-> redKey,
              nirKey |-> findKey(assets, Filter(assets, NirLikeKeys, redKey))]
        ELSE [redKey |-> redKey, nirKey |-> nirKey]

\* Inputs: every assets object with at most MaxKeys keys, drawn from the
\* candidate names of both lists, two names the lists do not hold but the
\* filter of lines 311-315 accepts, and two names it rejects; every asset
\* value is an object, hence truthy.
MaxKeys == 3

KeyUniverse ==
    SeqRange(RedCandidates) \cup SeqRange(NirCandidates)
        \cup {"nir09", "ST_B4", "green", "rendered_preview"}

KeyLists ==
    { q \in UNION { [1..n -> KeyUniverse] : n \in 0..MaxKeys } :
        \A i, j \in 1..Len(q) : i # j => q[i] # q[j] }

NoKeys == [redKey |-> NoKey, nirKey |-> NoKey]

KeysInit ==
    /\ kAssets \in KeyLists
    /\ kPc = "call"
    /\ kResult = NoKeys

KeysIdle ==
    /\ kAssets = <<>>
    /\ kPc = "returned"
    /\ kResult = NoKeys

ResolveBandKeys ==
    /\ kPc = "call"
    /\ kResult' = resolveBandKeys(kAssets)
    /\ kPc' = "returned"
    /\ UNCHANGED <<kAssets, notKeyVars>>

KeysNext == ResolveBandKeys

---------------------------------------------------------------------------
(* The page: unnamed/part_001 (app), scenes.js, unnamed/part_000 (map)     *)
(*                                                                         *)
(* Not modelled: text contents (loader text, bbox box, scene count, HUD,   *)
(* tooltip), the progress bar and the toast's hide timer.  The loader is   *)
(* taken not to block clicks: no handler tests it.                         *)

\* at most MaxTasks async handlers are suspended at a time, and the user
\* makes at most MaxEvents clicks and draws
MaxTasks  == 2
MaxEvents == 5

NoBBox  == <<>>
NoScene == 0

\* the rectangles the user draws: two inside the footprint of the scenes'
\* rasters (of different pixel size), one outside
AppBBoxes == { <<1, 1, 3, 5>>, <<0, 0, 6, 3>>, <<7, 7, 8, 8>> }

\* STAC features the search returns.  1 and 2 carry a preview and resolvable
\* bands; 3 has no preview and no NIR asset.
Catalog == {1, 2, 3}

AssetKeys(f) ==
    CASE f = 1 -> <<"red", "nir08", "rendered_preview">>
      [] f = 2 -> <<"B4", "B5", "rendered_preview">>
      [] f = 3 -> <<"SR_B4">>

HasPreview(f) == "rendered_preview" \in SeqRange(AssetKeys(f))

\* the raster behind a feature's band assets
BandImage(f) == ImgSmall

\* a suspended handler: its kind, the await it is suspended at, its captured
\* locals (feature, the signUrl call it awaits, the bbox passed to the read in
\* progress, the bbox the red window was read with).  `abandoned` is history,
\* not program state: clearAll was called while this doNDVI was suspended.
NoTask == [kind |-> "idle", pc |-> "none", feature |-> NoScene, sign |-> SignIdle,
           arg |-> NoBBox, red |-> NoBBox, abandoned |-> FALSE]

NoLayer == [kind |-> "none", feature |-> NoScene, bbox |-> NoBBox,
            red |-> NoBBox, nir |-> NoBBox]

NoStats == [feature |-> NoScene, red |-> NoBBox, nir |-> NoBBox]

AppInit ==
    /\ bbox = NoBBox
    /\ scenes = {}
    /\ selected = NoScene
    /\ map = [drawnItems |-> {}, previewLayer |-> NoLayer, ndviLayer |-> NoLayer,
              hitLayers |-> 0]
    /\ ui = [status |-> "init", toast |-> "none", loaderOn |-> FALSE,
             legendShown |-> FALSE, stats |-> NoStats,
             btnSearchDisabled |-> TRUE, btnNdviDisabled |-> TRUE]
    /\ tasks = [i \in 1..MaxTasks |-> NoTask]
    /\ events = 0

HasFreeSlot == \E i \in 1..MaxTasks : tasks[i].kind = "idle"
FreeSlot    == CHOOSE i \in 1..MaxTasks :
                   tasks[i].kind = "idle" /\ \A j \in 1..(i - 1) : tasks[j].kind # "idle"

UserEvent == events < MaxEvents /\ events' = events + 1

\* ---- map module ----

\* part_000 lines 146-148
clearPreviewLayer(m) == [m EXCEPT !.previewLayer = NoLayer]

\* part_000 lines 70-76
highlightSceneBBox(m, f) ==
    [clearPreviewLayer(m) EXCEPT !.previewLayer = [NoLayer EXCEPT !.kind = "footprint", !.feature = f]]

\* part_000 lines 79-85
showPreviewImage(m, f) ==
    [clearPreviewLayer(m) EXCEPT !.previewLayer = [NoLayer EXCEPT !.kind = "image", !.feature = f]]

\* part_000 line 93: the old overlay is removed from the map; its hit layer,
\* reachable only through the removed overlay, stays on the map
removeOldOverlay(m) == [m EXCEPT !.ndviLayer = NoLayer]

\* part_000 lines 95-142, bbox not null: a new overlay and a new hit layer
addOverlay(m, layer) == [m EXCEPT !.ndviLayer = layer, !.hitLayers = @ + 1]

\* part_000 lines 150-159
clearMapLayers(m) ==
    LET c == clearPreviewLayer([m EXCEPT !.drawnItems = {}])
    IN  IF m.ndviLayer.kind # "none"
        THEN [c EXCEPT !.ndviLayer = NoLayer, !.hitLayers = @ - 1]
        ELSE c

\* ---- user events ----

\* part_000 lines 36-47 and part_001 lines 80-88: a rectangle is drawn
DrawBBox ==
    /\ UserEvent
    /\ \E b \in AppBBoxes :
          /\ bbox' = b
          /\ map' = [map EXCEPT !.drawnItems = {b}]
    /\ ui' = [ui EXCEPT !.btnSearchDisabled = FALSE, !.toast = "success"]
    /\ UNCHANGED <<scenes, selected, tasks, notAppVars>>

\* part_001 lines 91-106: the Clear button
ClearAll ==
    /\ UserEvent
    /\ bbox' = NoBBox
    /\ scenes' = {}
    /\ selected' = NoScene
    /\ map' = clearMapLayers(map)
    /\ ui' = [ui EXCEPT !.btnSearchDisabled = TRUE, !.btnNdviDisabled = TRUE,
                        !.legendShown = FALSE, !.status = "READY"]
    \* the suspended handlers are left as they are; history only
    /\ tasks' = [i \in 1..MaxTasks |->
                    IF tasks[i].kind = "ndvi" THEN [tasks[i] EXCEPT !.abandoned = TRUE]
                    ELSE tasks[i]]
    /\ UNCHANGED notAppVars

\* part_001 lines 109-121: the Search button, up to `await searchScenes`.  The
\* button is enabled only while bbox is set, so line 110 never returns.
ClickSearch ==
    /\ UserEvent
    /\ ~ui.btnSearchDisabled
    /\ bbox # NoBBox
    /\ HasFreeSlot
    /\ ui' = [ui EXCEPT !.status = "SEARCHING", !.loaderOn = TRUE]
    /\ tasks' = [tasks EXCEPT ![FreeSlot] = [NoTask EXCEPT !.kind = "search", !.pc = "search"]]
    /\ UNCHANGED <<bbox, scenes, selected, map, notAppVars>>

\* scenes.js lines 47-51, part_001 lines 136-140, scenes.js lines 58-77:
\* a scene card is clicked; the handler runs to `await signUrl` or, without a
\* preview asset, to its end
ClickScene ==
    /\ UserEvent
    /\ \E f \in scenes :
          /\ selected' = f
          /\ map' = highlightSceneBBox(map, f)
          /\ IF HasPreview(f)
             THEN /\ HasFreeSlot
                  /\ tasks' = [tasks EXCEPT ![FreeSlot] =
                        [NoTask EXCEPT !.kind = "select", !.pc = "signPreview",
                                       !.feature = f, !.sign = SignStart]]
                  /\ ui' = [ui EXCEPT !.btnNdviDisabled = FALSE]
             ELSE /\ ui' = [ui EXCEPT !.btnNdviDisabled = FALSE, !.toast = "info"]
                  /\ UNCHANGED tasks
    /\ UNCHANGED <<bbox, scenes, notAppVars>>

\* NDVIFailed hiding the legend as well
NDVIFailed_HidesLegend(u) ==
    [u EXCEPT !.status = "ERROR", !.toast = "NDVI error", !.loaderOn = FALSE,
              !.legendShown = FALSE]

\* part_001 lines 204-211: catch and finally of doNDVI; the toast is of type
\* error and its text starts with 'NDVI error: '
NDVIFailed(u) == [u EXCEPT !.status = "ERROR", !.toast = "NDVI error", !.loaderOn = FALSE]

\* part_001 lines 143-162: the Generate NDVI button, up to the first
\* `await signUrl`, or to the catch block when a band key is missing
ClickNDVI ==
    /\ UserEvent
    /\ ~ui.btnNdviDisabled
    /\ selected # NoScene /\ bbox # NoBBox
    /\ LET keys == resolveBandKeys(AssetKeys(selected))
       IN  IF keys.redKey = NoKey \/ keys.nirKey = NoKey
           THEN /\ ui' = NDVIFailed(ui)
                /\ UNCHANGED tasks
           ELSE /\ HasFreeSlot
                /\ ui' = [ui EXCEPT !.status = "LOADING", !.loaderOn = TRUE]
                /\ tasks' = [tasks EXCEPT ![FreeSlot] =
                      [NoTask EXCEPT !.kind = "ndvi", !.pc = "signRed",
                                     !.feature = selected, !.sign = SignStart]]
    /\ UNCHANGED <<bbox, scenes, selected, map, notAppVars>>

\* part_001 line 144: doNDVI returns at once without a scene or an AOI
ClickNDVINothingToDo ==
    /\ UserEvent
    /\ ~ui.btnNdviDisabled
    /\ selected = NoScene \/ bbox = NoBBox
    /\ UNCHANGED <<bbox, scenes, selected, map, ui, tasks, notAppVars>>

\* ---- continuations of the suspended handlers ----

TaskEnds(i) == tasks' = [tasks EXCEPT ![i] = NoTask]

\* part_001 lines 204-211 reached from a suspended doNDVI
NDVITaskFails(i) ==
    /\ ui' = NDVIFailed(ui)
    /\ TaskEnds(i)
    /\ UNCHANGED map

\* PreviewFailed reporting the error as the catch of doNDVI does
PreviewFailed_ReportsError(i) ==
    /\ ui' = NDVIFailed(ui)
    /\ TaskEnds(i)
    /\ UNCHANGED map

\* scenes.js lines 73-76 reached from a suspended handleSceneSelect: the
\* empty catch, then the toast of type info
PreviewFailed(i) ==
    /\ ui' = [ui EXCEPT !.toast = "info"]
    /\ TaskEnds(i)
    /\ UNCHANGED map

\* signUrl of task i has moved to state s: it stays suspended, or the
\* awaiting handler resumes with the value (part_001 lines 162-172,
\* scenes.js lines 71-76) or with the error (part_001 line 204,
\* scenes.js line 73)
AfterSign(i, s) ==
    LET t == tasks[i]
    IN  CASE s.phase \in {"fetch", "sleepRetry", "sleepCatch"} ->
                /\ tasks' = [tasks EXCEPT ![i].sign = s]
                /\ UNCHANGED <<map, ui>>
          [] s.phase = "returned" /\ t.pc = "signRed" ->
                /\ tasks' = [tasks EXCEPT ![i] = [t EXCEPT !.pc = "signNir", !.sign = SignStart]]
                /\ UNCHANGED <<map, ui>>
          [] s.phase = "returned" /\ t.pc = "signNir" ->
                /\ tasks' = [tasks EXCEPT ![i] =
                      [t EXCEPT !.pc = "readRedOpen", !.sign = SignIdle, !.arg = bbox]]
                /\ UNCHANGED <<map, ui>>
          [] s.phase = "returned" /\ t.pc = "signPreview" ->
                /\ map' = showPreviewImage(map, t.feature)
                /\ ui' = [ui EXCEPT !.toast = "info"]
                /\ TaskEnds(i)
          [] s.phase = "thrown" /\ t.pc = "signPreview" ->
                PreviewFailed(i)
          [] s.phase = "thrown" /\ t.pc \in {"signRed", "signNir"} ->
                NDVITaskFails(i)

Signing(i) == tasks[i].pc \in {"signRed", "signNir", "signPreview"}

TaskFetchSettles(resp) ==
    /\ \E i \in 1..MaxTasks :
          /\ Signing(i) /\ tasks[i].sign.phase = "fetch"
          /\ AfterSign(i, SignOnResponse(tasks[i].sign, resp))
    /\ UNCHANGED <<bbox, scenes, selected, events, notAppVars>>

TaskSignOk           == TaskFetchSettles("ok")
TaskSignRateLimited  == TaskFetchSettles("rateLimited")
TaskSignHttpError    == TaskFetchSettles("httpError")
TaskSignNetworkError == TaskFetchSettles("networkError")

TaskSignWake ==
    /\ \E i \in 1..MaxTasks :
          /\ Signing(i) /\ SignSleeping(tasks[i].sign)
          /\ AfterSign(i, SignOnWake(tasks[i].sign))
    /\ UNCHANGED <<bbox, scenes, selected, events, notAppVars>>

\* ndvi.js lines 16-17 in a doNDVI: opening the COG fails
TaskCogOpenFails ==
    /\ \E i \in 1..MaxTasks :
          /\ tasks[i].pc \in {"readRedOpen", "readNirOpen"}
          /\ NDVITaskFails(i)
    /\ UNCHANGED <<bbox, scenes, selected, events, notAppVars>>

\* TaskCogOpened without the null tests of part_001 lines 173 and 178
TaskCogOpened_IgnoresNull ==
    /\ \E i \in 1..MaxTasks :
          LET t == tasks[i]
          IN  /\ t.pc \in {"readRedOpen", "readNirOpen"}
              /\ IF t.arg = NoBBox
                 THEN NDVITaskFails(i)
                 ELSE /\ tasks' = [tasks EXCEPT ![i].pc =
                            IF t.pc = "readRedOpen" THEN "readRedRasters" ELSE "readNirRasters"]
                      /\ UNCHANGED <<map, ui>>
    /\ UNCHANGED <<bbox, scenes, selected, events, notAppVars>>

\* ndvi.js lines 16-97 in a doNDVI: the COG is opened; destructuring a null
\* bbox throws (line 32), an empty window returns null, which doNDVI turns
\* into an error (part_001 lines 173, 178); otherwise readRasters is called
TaskCogOpened ==
    /\ \E i \in 1..MaxTasks :
          LET t == tasks[i]
          IN  /\ t.pc \in {"readRedOpen", "readNirOpen"}
              /\ IF t.arg = NoBBox
                 THEN NDVITaskFails(i)
                 ELSE IF IsEmptyWindow(WindowOf(BandImage(t.feature), t.arg))
                 THEN NDVITaskFails(i)
                 ELSE /\ tasks' = [tasks EXCEPT ![i].pc =
                            IF t.pc = "readRedOpen" THEN "readRedRasters" ELSE "readNirRasters"]
                      /\ UNCHANGED <<map, ui>>
    /\ UNCHANGED <<bbox, scenes, selected, events, notAppVars>>

\* ndvi.js line 92 in a doNDVI: readRasters rejects
TaskRastersFail ==
    /\ \E i \in 1..MaxTasks :
          /\ tasks[i].pc \in {"readRedRasters", "readNirRasters"}
          /\ NDVITaskFails(i)
    /\ UNCHANGED <<bbox, scenes, selected, events, notAppVars>>

\* part_001 lines 172-177: the red window is read, the NIR read is issued
\* with the AOI of this moment
TaskRedRead ==
    /\ \E i \in 1..MaxTasks :
          /\ tasks[i].pc = "readRedRasters"
          /\ tasks' = [tasks EXCEPT ![i] =
                [@ EXCEPT !.pc = "readNirOpen", !.red = tasks[i].arg, !.arg = bbox]]
    /\ UNCHANGED <<bbox, scenes, selected, map, ui, events, notAppVars>>

\* part_001 lines 177-211 and part_000 lines 91-143: the NIR window is read;
\* the index is computed, the stats panel updated, the overlay replaced.
\* setNDVIOverlay removes the old overlay and then destructures bbox, which
\* throws when the AOI has been cleared meanwhile.
TaskNirRead ==
    /\ \E i \in 1..MaxTasks :
          LET t     == tasks[i]
              shown == [feature |-> t.feature, red |-> t.red, nir |-> t.arg]
              m     == removeOldOverlay(map)
          IN  /\ t.pc = "readNirRasters"
              /\ TaskEnds(i)
              /\ IF bbox = NoBBox
                 THEN /\ map' = m
                      /\ ui' = NDVIFailed([ui EXCEPT !.stats = shown])
                 ELSE /\ map' = addOverlay(m, [kind |-> "ndvi", feature |-> t.feature,
                                               bbox |-> bbox, red |-> t.red, nir |-> t.arg])
                      /\ ui' = [ui EXCEPT !.stats = shown, !.legendShown = TRUE,
                                          !.status = "NDVI READY", !.toast = "success",
                                          !.loaderOn = FALSE]
    /\ UNCHANGED <<bbox, scenes, selected, events, notAppVars>>

\* part_001 lines 116-132: the search answers with features (possibly none)
SearchFound ==
    /\ \E i \in 1..MaxTasks : \E found \in {{}, Catalog} :
          /\ tasks[i].pc = "search"
          /\ scenes' = found
          /\ ui' = [ui EXCEPT !.status = "FOUND",
                              !.toast = IF found # {} THEN "success" ELSE "info",
                              !.loaderOn = FALSE]
          /\ TaskEnds(i)
    /\ UNCHANGED <<bbox, selected, map, events, notAppVars>>

\* part_001 lines 126-132: the search fails
SearchFailed ==
    /\ \E i \in 1..MaxTasks :
          /\ tasks[i].pc = "search"
          /\ ui' = [ui EXCEPT !.status = "ERROR", !.toast = "error", !.loaderOn = FALSE]
          /\ TaskEnds(i)
    /\ UNCHANGED <<bbox, scenes, selected, map, events, notAppVars>>

AppNext ==
    \/ DrawBBox \/ ClearAll \/ ClickSearch \/ ClickScene
    \/ ClickNDVI \/ ClickNDVINothingToDo
    \/ TaskSignOk \/ TaskSignRateLimited \/ TaskSignHttpError \/ TaskSignNetworkError
    \/ TaskSignWake
    \/ TaskCogOpenFails \/ TaskCogOpened \/ TaskRastersFail
    \/ TaskRedRead \/ TaskNirRead
    \/ SearchFound \/ SearchFailed

---------------------------------------------------------------------------
(* Specifications                                                          *)

InitWindow == WindowInit /\ NDVIIdle /\ SignIdleInit /\ ColorIdle /\ KeysIdle /\ AppInit

SpecWindow == InitWindow /\ [][WindowNext]_vars

InitNDVI == NDVIInit /\ WindowIdle /\ SignIdleInit /\ ColorIdle /\ KeysIdle /\ AppInit

SpecNDVI == InitNDVI /\ [][NDVINext]_vars

InitNDVIAnyWindow == NDVIInitAnyWindow /\ WindowIdle /\ SignIdleInit /\ ColorIdle /\ KeysIdle /\ AppInit

SpecNDVIAnyWindow == InitNDVIAnyWindow /\ [][NDVINext]_vars

InitSign == SignInit /\ WindowIdle /\ NDVIIdle /\ ColorIdle /\ KeysIdle /\ AppInit

SpecSign == InitSign /\ [][SignNext]_vars

InitKeys == KeysInit /\ WindowIdle /\ NDVIIdle /\ SignIdleInit /\ ColorIdle /\ AppInit

SpecKeys == InitKeys /\ [][KeysNext]_vars

InitColor == ColorInit /\ WindowIdle /\ NDVIIdle /\ SignIdleInit /\ KeysIdle /\ AppInit

SpecColor == InitColor /\ [][ColorNext]_vars

Init == AppInit /\ WindowIdle /\ NDVIIdle /\ SignIdleInit /\ ColorIdle /\ KeysIdle

Next == AppNext

Spec == Init /\ [][Next]_vars

\* NDVI generations on their own: the page after three user events (an AOI
\* drawn, a search answered, a scene card clicked and its preview signing
\* settled), from where the user generates, redraws and clears.
SceneSelected ==
    /\ bbox \in AppBBoxes
    /\ scenes = Catalog
    /\ selected \in Catalog
    /\ map = [drawnItems |-> {bbox},
              previewLayer |-> [NoLayer EXCEPT !.kind = IF HasPreview(selected)
                                                        THEN "image" ELSE "footprint",
                                               !.feature = selected],
              ndviLayer |-> NoLayer, hitLayers |-> 0]
    /\ ui = [status |-> "FOUND", toast |-> "info", loaderOn |-> FALSE,
             legendShown |-> FALSE, stats |-> NoStats,
             btnSearchDisabled |-> FALSE, btnNdviDisabled |-> FALSE]
    /\ tasks = [i \in 1..MaxTasks |-> NoTask]
    /\ events = 3

InitRun == SceneSelected /\ WindowIdle /\ NDVIIdle /\ SignIdleInit /\ ColorIdle /\ KeysIdle

RunNext ==
    \/ DrawBBox \/ ClearAll \/ ClickNDVI
    \/ TaskSignOk \/ TaskSignRateLimited \/ TaskSignHttpError \/ TaskSignNetworkError
    \/ TaskSignWake
    \/ TaskCogOpenFails \/ TaskCogOpened \/ TaskRastersFail
    \/ TaskRedRead \/ TaskNirRead

SpecRun == InitRun /\ [][RunNext]_vars

\* The scene list: the page once an AOI is drawn and a search has listed the
\* catalog (a state of Spec, two user events in), followed through the scene
\* selections and what can interleave with their preview signings.
ScenesListed ==
    /\ bbox \in AppBBoxes
    /\ scenes = Catalog
    /\ selected = NoScene
    /\ map = [drawnItems |-> {bbox}, previewLayer |-> NoLayer,
              ndviLayer |-> NoLayer, hitLayers |-> 0]
    /\ ui = [status |-> "FOUND", toast |-> "success", loaderOn |-> FALSE,
             legendShown |-> FALSE, stats |-> NoStats,
             btnSearchDisabled |-> FALSE, btnNdviDisabled |-> TRUE]
    /\ tasks = [i \in 1..MaxTasks |-> NoTask]
    /\ events = 2

InitSelect == ScenesListed /\ WindowIdle /\ NDVIIdle /\ SignIdleInit /\ ColorIdle /\ KeysIdle

SelectNext ==
    \/ DrawBBox \/ ClearAll \/ ClickScene
    \/ TaskSignOk \/ TaskSignRateLimited \/ TaskSignHttpError \/ TaskSignNetworkError
    \/ TaskSignWake

SpecSelect == InitSelect /\ [][SelectNext]_vars

---------------------------------------------------------------------------
(* Properties of readCOGWindow, checked under SpecWindow                   *)

\* the AOI in the image CRS, as the mapper receives it
NativeBox == Reproject(getEPSG(wImage), wBBox)

\* edges of the raster footprint in the image CRS
EastEdge  == wImage.originX + wImage.fullW * wImage.xRes
SouthEdge == wImage.originY + wImage.fullH * wImage.yRes

\* the raw (unclamped) and clamped bounds of lines 61-72, written out
RawCol0 == Floor(NativeBox.xmin - wImage.originX, wImage.xRes)
RawRow0 == Floor(NativeBox.ymax - wImage.originY, wImage.yRes)
RawCol1 == Ceil(NativeBox.xmax - wImage.originX, wImage.xRes)
RawRow1 == Ceil(NativeBox.ymin - wImage.originY, wImage.yRes)

ClampedIsEmpty ==
    \/ Min(wImage.fullW, RawCol1) <= Max(0, RawCol0)
    \/ Min(wImage.fullH, RawRow1) <= Max(0, RawRow0)

BoxNorthOfRaster == NativeBox.ymin > wImage.originY

BoxInsideRaster ==
    /\ wImage.originX <= NativeBox.xmin /\ NativeBox.xmax <= EastEdge
    /\ SouthEdge <= NativeBox.ymin /\ NativeBox.ymax <= wImage.originY

BoxOutsideRaster ==
    \/ NativeBox.xmax < wImage.originX
    \/ NativeBox.xmin > EastEdge
    \/ NativeBox.ymax < SouthEdge
    \/ NativeBox.ymin > wImage.originY

\* C4: when the clamped pixel window is empty (col1 <= col0 or row1 <= row0),
\* and in particular when the AOI lies entirely north of the raster's north
\* edge, readCOGWindow never invokes readRasters, and what it returns is null.
C4_EmptyWindowReturnsNullWithoutRead ==
    (ClampedIsEmpty \/ BoxNorthOfRaster) =>
        /\ wReadCalls = 0
        /\ wPc # "rasters"
        /\ wPc = "returned" => wResult = NullResult

\* an AOI north of the raster has been mapped and null returned
C4_Witness ==
    /\ BoxNorthOfRaster
    /\ NativeBox.xmin < NativeBox.xmax /\ NativeBox.ymin < NativeBox.ymax
    /\ wPc = "returned" /\ wResult = NullResult /\ wReadCalls = 0

\* C5: for a raster with xRes > 0 and yRes < 0 and an AOI with xmin < xmax and
\* ymin < ymax fully inside the footprint, the computed window is non-empty
\* and 0 <= col0 < col1 <= fullW, 0 <= row0 < row1 <= fullH.
C5_InsideAOIGivesContainedWindow ==
    ( /\ wImage.xRes > 0 /\ wImage.yRes < 0
      /\ BoxInsideRaster
      /\ NativeBox.xmin < NativeBox.xmax /\ NativeBox.ymin < NativeBox.ymax
      /\ wPc \in {"rasters", "returned"} ) =>
        /\ wResult # NullResult
        /\ wReadCalls = 1
        /\ 0 <= wWin.col0 /\ wWin.col0 < wWin.col1 /\ wWin.col1 <= wImage.fullW
        /\ 0 <= wWin.row0 /\ wWin.row0 < wWin.row1 /\ wWin.row1 <= wImage.fullH

\* an AOI narrower than one pixel, strictly inside one pixel, has been read
C5_Witness ==
    /\ BoxInsideRaster
    /\ 0 < NativeBox.xmax - NativeBox.xmin
    /\ NativeBox.xmax - NativeBox.xmin < wImage.xRes
    /\ NativeBox.xmin # wImage.originX
    /\ wPc = "returned" /\ wResult.kind = "data"
    /\ wWin.col1 = wWin.col0 + 1

\* C6: for an AOI fully outside the footprint (on any side, at any distance),
\* readCOGWindow returns null, and no window of negative (or zero) width or
\* height is ever handed to readRasters.
C6_OutsideAOIGivesNull ==
    /\ BoxOutsideRaster =>
          /\ wReadCalls = 0
          /\ wPc # "rasters"
          /\ wPc = "returned" => wResult = NullResult
    /\ wReadCalls > 0 => (wWin.col1 - wWin.col0 > 0 /\ wWin.row1 - wWin.row0 > 0)

\* an AOI less than one pixel west of the west edge has been mapped to null
C6_Witness ==
    /\ NativeBox.xmax < wImage.originX
    /\ wImage.originX - NativeBox.xmax < wImage.xRes
    /\ NativeBox.xmin < NativeBox.xmax /\ NativeBox.ymin < NativeBox.ymax
    /\ SouthEdge <= NativeBox.ymin /\ NativeBox.ymax <= wImage.originY
    /\ wPc = "returned" /\ wResult = NullResult

\* C7: for every non-empty clamped window, 1 <= outW <= min(winW, 1024) and
\* 1 <= outH <= min(winH, 1024); the returned band window has that size.
C7_OutputSizeBounded ==
    (wPc \in {"rasters", "returned"} /\ wResult # NullResult) =>
        LET winW == wWin.col1 - wWin.col0
            winH == wWin.row1 - wWin.row0
        IN  /\ 1 <= wWin.outW /\ wWin.outW <= Min(winW, MaxDim)
            /\ 1 <= wWin.outH /\ wWin.outH <= Min(winH, MaxDim)
            /\ wResult.kind = "data" =>
                  (wResult.width = wWin.outW /\ wResult.height = wWin.outH)

\* a window wider than 1024 and one pixel high has been read at 1024 x 1
C7_Witness ==
    /\ wPc = "returned" /\ wResult.kind = "data"
    /\ wWin.col1 - wWin.col0 > 2 * MaxDim
    /\ wWin.row1 - wWin.row0 = 1
    /\ wResult.width = MaxDim /\ wResult.height = 1

\* the directory of the image holds, at a key position, key 3072 or 2048
\* with a positive value
HasUsableCRSKey(image) ==
    /\ image.fileDirectory = "ok"
    /\ \E k \in 1..Len(image.geoKeys) :
          /\ 4 * k + 4 <= Len(image.geoKeys)
          /\ image.geoKeys[4 * k + 1] \in {3072, 2048}
          /\ image.geoKeys[4 * k + 4] > 0

\* the window the call computes when the AOI is reprojected to CRS epsg
WindowFor(epsg) == ClampedWindow(wImage, Reproject(epsg, wBBox))

SameBounds(w, c) ==
    w.col0 = c.col0 /\ w.row0 = c.row0 /\ w.col1 = c.col1 /\ w.row1 = c.row1

\* C14: getEPSG never fails: when the GeoKey directory is missing, unreadable
\* or holds no key 3072 or 2048 with a positive value, it returns 32601, and
\* readCOGWindow goes on with it: the window is the one of the AOI
\* reprojected to EPSG:32601.
C14_FallbackEPSG ==
    ~HasUsableCRSKey(wImage) =>
        /\ getEPSG(wImage) = 32601
        /\ wPc \in {"rasters", "returned"} =>
              /\ SameBounds(wWin, WindowFor(32601))
              /\ wResult.kind = "null" <=> IsEmptyWindow(WindowFor(32601))

\* a raster whose directory holds key 3072 with value 0 has been read through
\* the fallback CRS, with a window other CRS codes would not give
C14_Witness ==
    /\ wImage.fileDirectory = "ok"
    /\ \E k \in 1..Len(wImage.geoKeys) : wImage.geoKeys[k] = 3072
    /\ ~HasUsableCRSKey(wImage)
    /\ wPc = "returned" /\ wResult.kind = "data"
    /\ ~SameBounds(wWin, WindowFor(32610))
    /\ ~SameBounds(wWin, WindowFor(4326))

\* bboxWGS84 as a box, untransformed
GeographicBox == [xmin |-> wBBox[1], ymin |-> wBBox[2], xmax |-> wBBox[3], ymax |-> wBBox[4]]

\* C15: when the raster's CRS is geographic (EPSG 4326) the AOI is not
\* transformed: the native-CRS box is xmin = west, ymin = south, xmax = east,
\* ymax = north, and the pixel window is the one of that box.
C15_GeographicIsIdentity ==
    getEPSG(wImage) = 4326 =>
        /\ NativeBox = GeographicBox
        /\ wPc \in {"rasters", "returned"} =>
              SameBounds(wWin, ClampedWindow(wImage, GeographicBox))

\* a geographic raster has been read with the window of the untransformed
\* AOI, which is not the window the four-corner projection would give
C15_Witness ==
    /\ getEPSG(wImage) = 4326
    /\ wBBox[1] < wBBox[3] /\ wBBox[2] < wBBox[4]
    /\ wPc = "returned" /\ wResult.kind = "data"
    /\ SameBounds(wWin, ClampedWindow(wImage, GeographicBox))
    /\ ~SameBounds(wWin, ClampedWindow(wImage, Reproject(FallbackEPSG, wBBox)))

\* the points the AOI box is built from: the corners, projected unless the
\* CRS is geographic
Corners == { <<wBBox[1], wBBox[2]>>, <<wBBox[3], wBBox[2]>>,
             <<wBBox[3], wBBox[4]>>, <<wBBox[1], wBBox[4]>> }

NativeCorners ==
    IF getEPSG(wImage) = 4326 THEN Corners
    ELSE { proj4(getEPSG(wImage), c) : c \in Corners }

\* C19: never under-fetch.  For every non-empty result the pixel window
\* covers the part of the native-CRS AOI box that lies inside the raster:
\* its west edge is not east of max(xmin, raster west edge), its east edge
\* not west of min(xmax, raster east edge), and likewise north and south;
\* and the native-CRS box contains the four (projected) corners.
C19_NeverUnderFetch ==
    LET box == NativeBox
    IN  /\ (wPc \in {"rasters", "returned"} /\ wResult.kind # "null") =>
              /\ wImage.originX + wWin.col0 * wImage.xRes <= Max(box.xmin, wImage.originX)
              /\ wImage.originX + wWin.col1 * wImage.xRes >= Min(box.xmax, EastEdge)
              /\ wImage.originY + wWin.row0 * wImage.yRes >= Min(box.ymax, wImage.originY)
              /\ wImage.originY + wWin.row1 * wImage.yRes <= Max(box.ymin, SouthEdge)
        /\ \A c \in NativeCorners :
              /\ box.xmin <= c[1] /\ c[1] <= box.xmax
              /\ box.ymin <= c[2] /\ c[2] <= box.ymax

\* a projected raster has been read for an AOI that sticks out of it on the
\* west and ends inside a pixel on the east and on the south: the window
\* starts at column 0 and over-fetches to the next pixel edges
C19_Witness ==
    /\ getEPSG(wImage) # 4326
    /\ wPc = "returned" /\ wResult.kind = "data"
    /\ NativeBox.xmin < wImage.originX /\ wWin.col0 = 0
    /\ NativeBox.xmax < EastEdge
    /\ wImage.originX + wWin.col1 * wImage.xRes > NativeBox.xmax
    /\ NativeBox.ymin > SouthEdge
    /\ wImage.originY + wWin.row1 * wImage.yRes < NativeBox.ymin
    /\ Cardinality(NativeCorners) = 4

---------------------------------------------------------------------------
(* Properties of computeNDVIArray, checked under SpecNDVI                  *)

\* number of valid (non-NaN) samples of the result
ValidCount == Cardinality({ i \in 1..Len(nResult.ndvi) : ~isNaN(nResult.ndvi[i]) })

\* C8: when at least one sample is valid, stats.min <= stats.mean <= stats.max;
\* when none is, min, mean, max and the coverage percentage are all 0.
C8_StatsOrderedOrZero ==
    nPc = "returned" =>
        /\ ValidCount > 0 =>
              /\ RatLe(nResult.stats.min, nResult.stats.mean)
              /\ RatLe(nResult.stats.mean, nResult.stats.max)
        /\ ValidCount = 0 =>
              /\ nResult.stats.min = Zero
              /\ nResult.stats.mean = Zero
              /\ nResult.stats.max = Zero
              /\ nResult.stats.vegPct = Zero

\* C9: the output sample at (row, col) of the trimmed min-width x min-height
\* window is computed from the red sample at (row, col) of the red window and
\* the NIR sample at (row, col) of the NIR window.
C9_TrimAnchoredAtOrigin ==
    nPc = "returned" =>
        \A row \in 0..(nResult.height - 1) : \A col \in 0..(nResult.width - 1) :
            nResult.ndvi[row * nResult.width + col + 1] =
                NDVIValue(Calibrate(nirData.data[row * nirData.width + col + 1]),
                          Calibrate(redData.data[row * redData.width + col + 1]))

\* C10: for every sample whose calibrated NIR and red reflectances are equal,
\* the index value is exactly 0 when their sum is > 0 and NoData (NaN) when
\* both are 0.
C10_EqualReflectances ==
    nPc = "returned" =>
        \A i \in 1..Len(nResult.ndvi) :
            LET r == Calibrate(redData.data[i])
                n == Calibrate(nirData.data[i])
            IN  n = r =>
                   /\ n + r > 0 => nResult.ndvi[i] = Zero
                   /\ (n = 0 /\ r = 0) => isNaN(nResult.ndvi[i])

\* one result holds both cases: equal non-zero reflectances giving 0 and two
\* zero reflectances giving NaN
C10_Witness ==
    /\ nPc = "returned"
    /\ \E i, j \in 1..Len(nResult.ndvi) :
          /\ Calibrate(redData.data[i]) = Calibrate(nirData.data[i])
          /\ Calibrate(redData.data[i]) > 0
          /\ nResult.ndvi[i] = Zero
          /\ Calibrate(redData.data[j]) = 0 /\ Calibrate(nirData.data[j]) = 0
          /\ isNaN(nResult.ndvi[j])

\* C11: every index value computeNDVIArray produces that is not NoData lies
\* in [-1, 1], whatever the raw samples are, raw values calibrating outside
\* [0, 1] before the clamp included.
C11_IndexInUnitInterval ==
    nPc = "returned" =>
        \A i \in 1..Len(nResult.ndvi) :
            LET v == nResult.ndvi[i]
            IN  ~isNaN(v) =>
                   /\ v.den > 0
                   /\ -v.den <= v.num /\ v.num <= v.den

\* one result holds both ends: raw NIR calibrating above 1 over raw red
\* calibrating below 0 gives exactly 1, the reverse gives exactly -1
C11_Witness ==
    /\ nPc = "returned"
    /\ \E i, j \in 1..Len(nResult.ndvi) :
          /\ nirData.data[i] * ScaleNum - OffsetNum > ReflUnit
          /\ redData.data[i] * ScaleNum - OffsetNum < 0
          /\ nResult.ndvi[i] = [num |-> 1, den |-> 1]
          /\ redData.data[j] * ScaleNum - OffsetNum > ReflUnit
          /\ nirData.data[j] * ScaleNum - OffsetNum < 0
          /\ nResult.ndvi[j] = [num |-> -1, den |-> 1]

\* the trimmed window of the call has no sample
TrimmedIsDegenerate ==
    \/ Min(redData.width, nirData.width) = 0
    \/ Min(redData.height, nirData.height) = 0

\* C16: computeNDVIArray fails (InvalidInputError, nPc = "thrown") when the
\* trimmed window is degenerate and in no other case: it returns no result
\* for a zero-size window.
C16_DegenerateWindowRejected ==
    /\ TrimmedIsDegenerate => nPc # "returned"
    /\ ~TrimmedIsDegenerate => nPc # "thrown"

---------------------------------------------------------------------------
(* Properties of applyColormap, checked under SpecColor                    *)

\* v lies between x and y, whichever is larger
Between(v, x, y) == Min(x, y) <= v /\ v <= Max(x, y)

\* C17: palette interpolation clamps at the ends of every palette:
\* applyColormap returns exactly the first color stop for t <= 0 and exactly
\* the last for t >= 1, and for t in [0, 1] each channel lies between the
\* channels of the two neighbouring stops.
C17_PaletteClampsAtEnds ==
    cPc # "call" =>
        LET stops == StopsOf(cName)
            n     == Len(stops) - 1
        IN  /\ cT <= 0 => cResult = stops[1]
            /\ cT >= TDen => cResult = stops[n + 1]
            /\ (0 <= cT /\ cT <= TDen) =>
                  /\ cPc = "returned"
                  /\ \E j \in 1..n :
                        /\ (j - 1) * TDen <= cT * n /\ cT * n <= j * TDen
                        /\ \A ch \in 1..3 :
                              Between(cResult[ch], stops[j][ch], stops[j + 1][ch])

---------------------------------------------------------------------------
(* Properties of signUrl, checked under SpecSign                           *)

RECURSIVE Pow2(_)
Pow2(n) == IF n = 0 THEN 1 ELSE 2 * Pow2(n - 1)

\* number of 429 responses among the first k
RateLimitedAmong(k) ==
    Cardinality({ j \in 1..k : sgResponses[j] = "rateLimited" })

\* C2: a non-ok response whose status is not 429 is not retried: once request
\* k has received one, request k is the last request of the call and the call
\* does not return a value.
C2_HttpErrorNotRetried ==
    \A k \in 1..Len(sgResponses) :
        sgResponses[k] = "httpError" =>
            /\ sgRequests = k
            /\ sgCall.phase # "returned"

\* C3 as stated: the wait is 800 ms after the first 429 and doubles after each
\* further 429; at most 4 requests; four 429s end in an error.
C3_BackoffCountsRateLimits ==
    /\ \A k \in 1..Len(sgResponses) :
          sgResponses[k] = "rateLimited" =>
              sgWaits[k] = InitialDelay * Pow2(RateLimitedAmong(k) - 1)
    /\ sgRequests <= MAX_RETRIES
    /\ (Len(sgResponses) = 4 /\ RateLimitedAmong(4) = 4) =>
          /\ sgCall.phase \in {"sleepRetry", "thrown"}
          /\ sgCall.phase = "thrown" => sgCall.err = "rateLimited"

\* C3 amended: the wait after a 429 received by request k is 800 * 2^(k-1) ms
\* (800 ms when it is the first request; the delay doubles after every earlier
\* request of the call, rate-limited or failed); at most 4 requests; four 429s
\* end in the rate-limit error, never in a value.
C3_BackoffCountsAttempts ==
    /\ \A k \in 1..Len(sgResponses) :
          sgResponses[k] = "rateLimited" =>
              sgWaits[k] = InitialDelay * Pow2(k - 1)
    /\ sgRequests <= MAX_RETRIES
    /\ (Len(sgResponses) = 4 /\ RateLimitedAmong(4) = 4) =>
          /\ sgCall.phase \in {"sleepRetry", "thrown"}
          /\ sgCall.phase = "thrown" => sgCall.err = "rateLimited"

\* four requests, all rate-limited, waits 800, 1600, 3200, 6400, then the error
C3_Witness ==
    /\ sgResponses = <<"rateLimited", "rateLimited", "rateLimited", "rateLimited">>
    /\ sgWaits = <<800, 1600, 3200, 6400>>
    /\ sgRequests = 4
    /\ sgCall.phase = "thrown" /\ sgCall.err = "rateLimited"

\* the response the latest request of the call ended with
LastResponse == sgResponses[Len(sgResponses)]

---------------------------------------------------------------------------
(* Properties of the page, checked under Spec                              *)

\* a signing request of task i is in flight (signUrl awaiting fetch), or a
\* band read is (readCOGWindow awaiting the COG or its rasters)
InFlight(i) ==
    \/ Signing(i) /\ tasks[i].sign.phase = "fetch"
    \/ tasks[i].pc \in {"readRedOpen", "readRedRasters", "readNirOpen", "readNirRasters"}

\* C1: under any interleaving of user events, at most one signUrl request or
\* readCOGWindow read is outstanding.
C1_AtMostOneRequestInFlight ==
    Cardinality({ i \in 1..MaxTasks : InFlight(i) }) <= 1

\* C12: when clearAll is called while a doNDVI is suspended at a URL signing
\* or a band read, the run's data is discarded: the step by which the
\* abandoned run later ends puts no new NDVI overlay on the map, writes no
\* stats into the stats panel and does not show the legend.
C12_AbandonedRunDiscarded ==
    [][\A i \in 1..MaxTasks :
          (tasks[i].kind = "ndvi" /\ tasks[i].abandoned /\ tasks'[i] = NoTask) =>
              /\ map'.ndviLayer \in {map.ndviLayer, NoLayer}
              /\ map'.hitLayers = map.hitLayers
              /\ ui'.stats = ui.stats
              /\ ui'.legendShown = ui.legendShown]_vars

\* what an NDVI generation shows when it succeeds
Published == <<map.ndviLayer, map.hitLayers, ui.stats, ui.legendShown>>

\* a step of the doNDVI suspended in slot i
RunStep(i) ==
    /\ tasks[i].kind = "ndvi"
    /\ tasks'[i].pc # tasks[i].pc \/ tasks'[i].sign # tasks[i].sign

\* a doNDVI ends in its catch block because a band key is missing, a signing
\* has thrown, or a band read has thrown or returned null
RunFails ==
    \/ ClickNDVI /\ UNCHANGED tasks
    \/ \E i \in 1..MaxTasks :
          /\ tasks[i].kind = "ndvi" /\ tasks'[i] = NoTask
          /\ tasks[i].pc # "readNirRasters" \/ TaskRastersFail

\* C13: an NDVI generation fails as a whole: when band-key resolution, a URL
\* signing or a band read fails or returns no-intersection, the run ends
\* reporting an error, and neither that step nor any earlier step of the run
\* has touched the NDVI overlay, the stats panel or the legend.
C13_FailsAsAWhole ==
    [][/\ \A i \in 1..MaxTasks :
             (RunStep(i) /\ ~TaskNirRead) => Published' = Published
       /\ RunFails =>
             /\ Published' = Published
             /\ ui'.status = "ERROR" /\ ui'.toast = "NDVI error"]_vars

\* a run has failed while the overlay, stats and legend of an earlier run are
\* on display, and they still are
C13_Witness ==
    /\ ui.status = "ERROR" /\ ui.toast = "NDVI error"
    /\ map.ndviLayer.kind = "ndvi" /\ map.hitLayers = 1
    /\ ui.legendShown
    /\ ui.stats = [feature |-> map.ndviLayer.feature,
                   red |-> map.ndviLayer.red, nir |-> map.ndviLayer.nir]
    /\ \A i \in 1..MaxTasks : tasks[i].kind = "idle"

\* the pixel window of a band of feature f for the AOI b is not empty
HasWindow(f, b) == b # NoBBox /\ ~IsEmptyWindow(WindowOf(BandImage(f), b))

\* C18: within one doNDVI the network steps are sign(red), sign(NIR),
\* read(red), read(NIR) in this order, each started by the successful end of
\* the one before; the NIR read is issued only after the red read returned a
\* non-null window, and the index is computed (and shown) only by the step
\* that ends the NIR read, with both windows non-null.
C18_NetworkStepsInOrder ==
    [][/\ \A i \in 1..MaxTasks :
             LET t == tasks[i]
                 u == tasks'[i]
             IN  (u.kind = "ndvi" /\ u.pc # t.pc) =>
                    /\ u.pc = "signRed" => t.kind = "idle" /\ ClickNDVI
                    /\ u.pc = "signNir" => t.pc = "signRed" /\ TaskSignOk
                    /\ u.pc = "readRedOpen" => t.pc = "signNir" /\ TaskSignOk
                    /\ u.pc = "readRedRasters" =>
                          t.pc = "readRedOpen" /\ HasWindow(t.feature, t.arg)
                    /\ u.pc = "readNirOpen" =>
                          t.pc = "readRedRasters" /\ HasWindow(u.feature, u.red)
                    /\ u.pc = "readNirRasters" =>
                          t.pc = "readNirOpen" /\ HasWindow(t.feature, t.arg)
       /\ Published' # Published /\ ~ClearAll =>
             \E i \in 1..MaxTasks :
                /\ tasks[i].pc = "readNirRasters" /\ tasks'[i] = NoTask
                /\ HasWindow(tasks[i].feature, tasks[i].red)
                /\ HasWindow(tasks[i].feature, tasks[i].arg)]_vars

\* a run has gone through all four steps and shown its index
C18_Witness ==
    /\ ui.status = "NDVI READY"
    /\ map.ndviLayer.kind = "ndvi"
    /\ HasWindow(map.ndviLayer.feature, map.ndviLayer.red)
    /\ HasWindow(map.ndviLayer.feature, map.ndviLayer.nir)
    /\ ui.stats.feature = map.ndviLayer.feature

---------------------------------------------------------------------------
(* resolveBandKeys                                                         *)

\* the first picks of lines 304 and 306 name one asset
FirstPicksCoincide ==
    /\ findKey(kAssets, NirCandidates) # NoKey
    /\ findKey(kAssets, NirCandidates) = findKey(kAssets, RedCandidates)

\* C21: whatever the asset keys, resolveBandKeys never returns one key for
\* both bands: two non-null keys differ, and where the first picks coincide
\* the NIR key returned is another key of the assets or null.
C21_RedAndNirDiffer ==
    kPc = "returned" =>
        /\ (kResult.redKey # NoKey /\ kResult.nirKey # NoKey)
                => kResult.redKey # kResult.nirKey
        /\ FirstPicksCoincide
                => kResult.nirKey \in
                       ((SeqRange(kAssets) \ {kResult.redKey}) \cup {NoKey})

\* the first picks coincided and the NIR key was re-chosen among the others
C21_Witness ==
    /\ kPc = "returned"
    /\ FirstPicksCoincide
    /\ kResult.redKey = findKey(kAssets, RedCandidates)
    /\ kResult.nirKey # NoKey
    /\ kResult.nirKey # kResult.redKey

---------------------------------------------------------------------------
(* The NDVI layers of the map                                              *)

\* C22: the map holds at most one NDVI overlay and one hover hit layer, the
\* hit layer only together with its overlay; so after clearMapLayers, which
\* leaves no overlay, no hit layer remains either.
C22_OneOverlayOneHitLayer ==
    map.hitLayers = IF map.ndviLayer.kind = "none" THEN 0 ELSE 1

---------------------------------------------------------------------------
(* Scene selection                                                         *)

\* a step in which the preview signing of the suspended handleSceneSelect i
\* fails for good and the handler runs to its end
PreviewFails(i) ==
    /\ tasks[i].pc = "signPreview"
    /\ tasks'[i] = NoTask
    /\ TaskSignRateLimited \/ TaskSignHttpError \/ TaskSignNetworkError
           \/ TaskSignWake

\* C23: when signing the preview asset fails in handleSceneSelect, no error
\* is surfaced (the status is left alone, the toast is the informational
\* 'Selected'), and the selection, the layers on the map, footprint
\* included, and the Generate NDVI button are as they were before.
C23_PreviewFailureIsSilent ==
    [][ \A i \in 1..MaxTasks : PreviewFails(i) =>
            /\ ui'.status = ui.status
            /\ ui'.toast = "info"
            /\ selected' = selected
            /\ map' = map
            /\ ui'.btnNdviDisabled = ui.btnNdviDisabled ]_vars

\* the preview signing of the selected scene has failed: the scene is
\* selected, its footprint is on the map and Generate NDVI is enabled
C23_Witness ==
    /\ selected \in Catalog
    /\ HasPreview(selected)
    /\ \A i \in 1..MaxTasks : tasks[i] = NoTask
    /\ map.previewLayer = [NoLayer EXCEPT !.kind = "footprint", !.feature = selected]
    /\ ui.status = "FOUND"
    /\ ui.toast = "info"
    /\ ~ui.btnNdviDisabled

---------------------------------------------------------------------------
(* The AOI of one NDVI generation                                          *)

\* C24: one run of doNDVI works on one AOI: the NIR window is requested for
\* the bbox the red window was read with, and the overlay is placed on the
\* bbox both windows were read with, whatever is drawn or cleared while the
\* run is suspended.
C24_OneAOIPerRun ==
    /\ \A i \in 1..MaxTasks :
          tasks[i].pc \in {"readNirOpen", "readNirRasters"}
              => tasks[i].arg = tasks[i].red
    /\ map.ndviLayer.kind = "ndvi"
          => /\ map.ndviLayer.nir = map.ndviLayer.red
             /\ map.ndviLayer.bbox = map.ndviLayer.red

---------------------------------------------------------------------------
(* The preview layer                                                       *)

\* C25: once no preview signing is pending, the preview layer on the map,
\* footprint or image, is that of the scene selected last.
C25_PreviewOfLatestSelection ==
    (selected # NoScene /\ \A i \in 1..MaxTasks : tasks[i].kind # "select")
        => /\ map.previewLayer.kind \in {"footprint", "image"}
           /\ map.previewLayer.feature = selected

====
